---------------------------- MODULE Spec2Model ----------------------------
(***************************************************************************)
(* Model of the Electron host of Network Monitor (src/main.js): the        *)
(* runtime locator (findPythonExecutable), the backend supervisor          *)
(* (startPythonBackend / stopPythonBackend / restartPythonBackend and the  *)
(* observers registered on the PythonShell), the dependency installer      *)
(* (installPythonDependencies), the host's app/window and IPC handlers,    *)
(* and the API src/preload.js exposes to the page.  The host is single     *)
(* threaded: every action below is one callback run to completion.         *)
(***************************************************************************)
EXTENDS Integers, Sequences, FiniteSets, Bags, TLC

\* ------------------------------------------------------------- bounds
\* Restart Monitor clicks explored (each one sets one restart timer).
MaxRestarts == 1
\* stdout messages / stderr chunks one backend subprocess emits.
MaxMsgs == 2
MaxErrs == 1
\* stderr chunks one "--version" probe emits.
MaxErrChunks == 2
\* installPythonDependencies() calls explored, and the chunks one pip
\* subprocess writes to each of its two streams.
MaxInstalls == 1
MaxInstallChunks == 2
\* Listeners the page registers per channel, and message boxes it asks for.
MaxListeners == 1
MaxBoxes == 1

\* ---------------------------------------------------------- constants
\* The `null` the close observer receives as code when the subprocess was
\* ended by a signal; src/main.js:236 compares it with 0 by !==.
NullCode == -1
\* Exit codes the operating system may report for a backend subprocess.
ExitCodes == {0, 137, NullCode}

\* const commands = ["python", "python", "py"];
commands == <<"python", "python", "py">>
CommandNames == {commands[i] : i \in 1..Len(commands)}
\* resolve(null)
None == "none"
\* Exit codes of the pip subprocess: success, failure, ended by a signal.
InstallCodes == {0, 1, NullCode}

\* The channels main.js sends on (webContents.send) and the channels it
\* handles (ipcMain.handle).
SendChannels == {"python-output", "python-error", "python-closed",
                 "python-stopped", "python-restarted"}
IpcHandlers == {"get-app-version", "show-message-box", "install-dependencies"}
\* window.electronAPI: the channels the page can subscribe to and invoke.
ExposedSubscribe == {"python-output", "python-error", "python-closed",
                     "python-stopped", "python-restarted"}
ExposedInvoke == {"get-app-version", "show-message-box"}
\* removeAllListeners(channel) and ipcRenderer take any channel name.
Channels == SendChannels \cup IpcHandlers

VARIABLES
    app,            \* host: "init" | "ready" | "quitting" | "exited"
    mainWindow,     \* let mainWindow  (TRUE: a BrowserWindow, FALSE: null)
    pythonProcess,  \* let pythonProcess = null  (0: null, else index in procs)
    procs,          \* every backend subprocess spawned so far
    timers,         \* pending setTimeout(..., 1000) callbacks, in firing order
    starts,         \* startPythonBackend() calls whose locator is unresolved
    events,         \* bag of the mainWindow.webContents.send(...) calls made
    nRestarts,      \* restartPythonBackend() calls so far
    loc,            \* findPythonExecutable: "idle" | "called"
    profile,        \* how each command answers "--version" (environment)
    probes,         \* the probe subprocesses spawned by tryNext
    resolved,       \* the locator promise: "pending", a command, or None
    installs,       \* every installPythonDependencies() call so far
    dialogs,        \* bag of the native dialogs shown (dialog.show...)
    listeners,      \* page: ipcRenderer listeners per channel
    sender,         \* page: holds the ipcRenderer of an event.sender
    delivered       \* page: bag of the sent events that have arrived

supVars == <<app, mainWindow, pythonProcess, procs, timers, starts,
             events, nRestarts>>
locVars == <<loc, profile, probes, resolved>>
instVars == <<installs, dialogs>>
pageVars == <<listeners, sender, delivered>>
vars == <<app, mainWindow, pythonProcess, procs, timers, starts,
          events, nRestarts, loc, profile, probes, resolved,
          installs, dialogs, listeners, sender, delivered>>

Pids == 1..Len(procs)
Live(p) == procs[p].status = "running"
LivePids == {p \in Pids : Live(p)}
HostRuns == app \in {"ready", "quitting"}

\* ------------------------------------------------------------- events
\* One webContents.send: channel (type), the subprocess it is about, and the
\* payload (seq: which stdout message / stderr chunk; code, unexpected: the
\* python-closed payload; text: which error message).
Event(type, pid, seq, code, unexpected, text) ==
    [type |-> type, pid |-> pid, seq |-> seq, code |-> code,
     unexpected |-> unexpected, text |-> text]

\* if (mainWindow) mainWindow.webContents.send(channel, ...)
Send(ev, mw, e) == IF mw THEN ev (+) SetToBag({e}) ELSE ev


\* --------------------------------------------------------------- Init
NoProfile == [c \in CommandNames |-> [error |-> TRUE, out |-> 0, err |-> 0]]

InitSup ==
    /\ app = "init"
    /\ mainWindow = FALSE
    /\ pythonProcess = 0
    /\ procs = <<>>
    /\ timers = <<>>
    /\ starts = {}
    /\ events = EmptyBag
    /\ nRestarts = 0

\* No install has been asked for, no dialog shown; the page has just loaded
\* preload.js.
InitRest ==
    /\ installs = <<>>
    /\ dialogs = EmptyBag
    /\ listeners = [c \in Channels |-> 0]
    /\ sender = FALSE
    /\ delivered = EmptyBag

Init ==
    /\ InitSup
    /\ InitRest
    /\ loc = "idle"
    /\ profile = NoProfile
    /\ probes = <<>>
    /\ resolved = "pending"

\* ------------------------------------------------ stopPythonBackend()
\* StopProcs without pythonProcess.kill(): the handle is only dropped.
StopProcsNoKill(ps, h) == ps

\* pythonProcess.kill(): the signal is sent, the exit is not awaited.
StopProcs(ps, h) ==
    IF h # 0 THEN [ps EXCEPT ![h].signalled = TRUE] ELSE ps

\* StopEvents with the send outside if (pythonProcess) { ... }.
StopEventsNoGuard(ev, h, mw) ==
    Send(ev, mw, Event("stopped", h, 0, 0, FALSE, ""))

\* if (mainWindow) mainWindow.webContents.send("python-stopped"), inside
\* if (pythonProcess) { ... }
StopEvents(ev, h, mw) ==
    IF h # 0 THEN Send(ev, mw, Event("stopped", h, 0, 0, FALSE, "")) ELSE ev

\* Shutdown bookkeeping: the timers and starts that are still pending when a
\* shutdown handler runs stop() are marked; nothing in the code cancels them.
MarkTimers(ts) == [i \in 1..Len(ts) |-> [ts[i] EXCEPT !.stale = TRUE]]
MarkStarts(ss) == {[s EXCEPT !.stale = TRUE] : s \in ss}

\* "Stop Monitor" bookkeeping: the timers and starts that are still pending
\* when the menu runs stop() are marked; stop() looks at pythonProcess only.
MarkStoppedTimers(ts) == [i \in 1..Len(ts) |-> [ts[i] EXCEPT !.afterStop = TRUE]]
MarkStoppedStarts(ss) == {[s EXCEPT !.afterStop = TRUE] : s \in ss}

\* ------------------------------------------ app.whenReady().then(...)
AppReady ==
    /\ app = "init"
    /\ app' = "ready"
    /\ mainWindow' = TRUE
    /\ timers' = Append(timers,
                   [sid |-> 0, kind |-> "startup", old |-> 0, stale |-> FALSE,
                    afterStop |-> FALSE])
    /\ UNCHANGED <<pythonProcess, procs, starts, events, nRestarts>>
    /\ UNCHANGED <<locVars, instVars, pageVars>>

\* ------------------------------------------- a setTimeout callback runs
\* Both timers wait 1000 ms, so they fire in the order they were set.  The
\* callback calls startPythonBackend(), which only starts the locator; the
\* restart timer then sends "python-restarted".
NewStart(t) ==
    [sid |-> t.sid, kind |-> t.kind, old |-> t.old, stale |-> t.stale,
     afterStop |-> t.afterStop, fromIdle |-> (pythonProcess = 0 /\ starts = {})]

TimerFire ==
    /\ HostRuns
    /\ timers # <<>>
    /\ LET t == Head(timers) IN
        /\ starts' = starts \cup {NewStart(t)}
        /\ events' = IF t.kind = "restart"
                     THEN Send(events, mainWindow,
                               Event("restarted", 0, t.sid, 0, FALSE, ""))
                     ELSE events
    /\ timers' = Tail(timers)
    /\ UNCHANGED <<app, mainWindow, pythonProcess, procs, nRestarts>>
    /\ UNCHANGED <<locVars, instVars, pageVars>>

\* ------------------- findPythonExecutable().then((pythonCommand) => ...)
\* if (!pythonCommand) { ...send("python-error", errorMsg); showErrorBox; return }
StartNoPython(s) ==
    /\ HostRuns
    /\ s \in starts
    /\ starts' = starts \ {s}
    /\ events' = Send(events, mainWindow,
                      Event("error", 0, s.sid, 0, FALSE, "Python not found"))
    /\ UNCHANGED <<app, mainWindow, pythonProcess, procs, timers,
                   nRestarts>>
    /\ UNCHANGED <<locVars, instVars, pageVars>>

\* StartNoScript without its `return`: the error is sent and the shell is
\* created all the same.
StartNoScriptNoReturn(s) ==
    /\ HostRuns
    /\ s \in starts
    /\ starts' = starts \ {s}
    /\ events' = Send(events, mainWindow,
                      Event("error", 0, s.sid, 0, FALSE, "Python script not found"))
    /\ procs' = Append(procs,
                  [status |-> "running", signalled |-> FALSE, code |-> 0,
                   out |-> 0, err |-> 0, sid |-> s.sid, old |-> s.old,
                   fromIdle |-> s.fromIdle, stale |-> s.stale])
    /\ pythonProcess' = Len(procs) + 1
    /\ UNCHANGED <<app, mainWindow, timers, nRestarts>>
    /\ UNCHANGED <<locVars, instVars, pageVars>>

\* if (!fs.existsSync(scriptPath)) { ...send("python-error", errorMsg); return }
StartNoScript(s) ==
    /\ HostRuns
    /\ s \in starts
    /\ starts' = starts \ {s}
    /\ events' = Send(events, mainWindow,
                      Event("error", 0, s.sid, 0, FALSE, "Python script not found"))
    /\ UNCHANGED <<app, mainWindow, pythonProcess, procs, timers,
                   nRestarts>>
    /\ UNCHANGED <<locVars, instVars, pageVars>>

\* pythonProcess = new PythonShell("app.py", options); the three observers
\* are registered on the new shell.  Nothing looks at the old pythonProcess.
NewProc(s) ==
    [status |-> "running", signalled |-> FALSE, code |-> 0, out |-> 0,
     err |-> 0, sid |-> s.sid, old |-> s.old, fromIdle |-> s.fromIdle,
     stale |-> s.stale]

StartSpawn(s) ==
    /\ HostRuns
    /\ s \in starts
    /\ starts' = starts \ {s}
    /\ procs' = Append(procs, NewProc(s))
    /\ pythonProcess' = Len(procs) + 1
    /\ UNCHANGED <<app, mainWindow, timers, events, nRestarts>>
    /\ UNCHANGED <<locVars, instVars, pageVars>>

\* new PythonShell throws: catch (error) { ...send("python-error", error.message) }
StartThrow(s) ==
    /\ HostRuns
    /\ s \in starts
    /\ starts' = starts \ {s}
    /\ events' = Send(events, mainWindow,
                      Event("error", 0, s.sid, 0, FALSE, "Failed to start"))
    /\ UNCHANGED <<app, mainWindow, pythonProcess, procs, timers,
                   nRestarts>>
    /\ UNCHANGED <<locVars, instVars, pageVars>>

\* ------------------------------------------ observers on the PythonShell
\* BackendMessage forwarding each line twice.
BackendMessageTwice(p) ==
    /\ HostRuns
    /\ p \in Pids
    /\ procs[p].status \in {"running", "exited"}
    /\ procs[p].out < MaxMsgs
    /\ procs' = [procs EXCEPT ![p].out = @ + 1]
    /\ events' = Send(Send(events, mainWindow,
                           Event("output", p, procs[p].out + 1, 0, FALSE, "")),
                      mainWindow,
                      Event("output", p, procs[p].out + 1, 0, FALSE, ""))
    /\ UNCHANGED <<app, mainWindow, pythonProcess, timers, starts,
                   nRestarts>>
    /\ UNCHANGED <<locVars, instVars, pageVars>>

\* pythonProcess.on("message", ...): the next stdout line of subprocess p.
BackendMessage(p) ==
    /\ HostRuns
    /\ p \in Pids
    /\ procs[p].status \in {"running", "exited"}
    /\ procs[p].out < MaxMsgs
    /\ procs' = [procs EXCEPT ![p].out = @ + 1]
    /\ events' = Send(events, mainWindow,
                      Event("output", p, procs[p].out + 1, 0, FALSE, ""))
    /\ UNCHANGED <<app, mainWindow, pythonProcess, timers, starts,
                   nRestarts>>
    /\ UNCHANGED <<locVars, instVars, pageVars>>

\* BackendStderr treating error output as fatal: it stops the backend.
BackendStderrFatal(p) ==
    /\ HostRuns
    /\ p \in Pids
    /\ procs[p].status \in {"running", "exited"}
    /\ procs[p].err < MaxErrs
    /\ procs' = [procs EXCEPT ![p].err = @ + 1, ![p].signalled = TRUE]
    /\ pythonProcess' = 0
    /\ events' = Send(events, mainWindow,
                      Event("error", p, procs[p].err + 1, 0, FALSE, "stderr"))
    /\ UNCHANGED <<app, mainWindow, timers, starts, nRestarts>>
    /\ UNCHANGED <<locVars, instVars, pageVars>>

\* pythonProcess.on("stderr", ...): the next stderr chunk of subprocess p.
BackendStderr(p) ==
    /\ HostRuns
    /\ p \in Pids
    /\ procs[p].status \in {"running", "exited"}
    /\ procs[p].err < MaxErrs
    /\ procs' = [procs EXCEPT ![p].err = @ + 1]
    /\ events' = Send(events, mainWindow,
                      Event("error", p, procs[p].err + 1, 0, FALSE, "stderr"))
    /\ UNCHANGED <<app, mainWindow, pythonProcess, timers, starts,
                   nRestarts>>
    /\ UNCHANGED <<locVars, instVars, pageVars>>

\* The subprocess terminates (by itself or after kill()); the operating
\* system picks the moment and the code.  The host is not involved.
BackendExit(p, code) ==
    /\ p \in Pids
    /\ Live(p)
    /\ procs' = [procs EXCEPT ![p].status = "exited", ![p].code = code]
    /\ UNCHANGED <<app, mainWindow, pythonProcess, timers, starts,
                   events, nRestarts>>
    /\ UNCHANGED <<locVars, instVars, pageVars>>

\* ClosedEvents without the `code !== 0` test.
ClosedEventsNoCodeTest(ev, mw, p, code) ==
    Send(ev, mw, Event("closed", p, 0, code, TRUE, ""))

\* if (mainWindow && code !== 0) send("python-closed", {code, unexpected: true})
ClosedEvents(ev, mw, p, code) ==
    IF code # 0
    THEN Send(ev, mw, Event("closed", p, 0, code, TRUE, ""))
    ELSE ev

\* BackendClose calling startPythonBackend() again after a nonzero exit.
BackendCloseAutoRestart(p) ==
    /\ HostRuns
    /\ p \in Pids
    /\ procs[p].status = "exited"
    /\ procs' = [procs EXCEPT ![p].status = "closed"]
    /\ pythonProcess' = 0
    /\ events' = ClosedEvents(events, mainWindow, p, procs[p].code)
    /\ starts' = IF procs[p].code # 0
                 THEN starts \cup {[sid |-> procs[p].sid, kind |-> "auto",
                                    old |-> p, stale |-> FALSE,
                                    afterStop |-> FALSE,
                                    fromIdle |-> TRUE]}
                 ELSE starts
    /\ UNCHANGED <<app, mainWindow, timers, nRestarts>>
    /\ UNCHANGED <<locVars, instVars, pageVars>>

\* pythonProcess.on("close", (code) => { pythonProcess = null; ... }): the
\* assignment is to the module-level variable, whatever it refers to now.
BackendClose(p) ==
    /\ HostRuns
    /\ p \in Pids
    /\ procs[p].status = "exited"
    /\ procs' = [procs EXCEPT ![p].status = "closed"]
    /\ pythonProcess' = 0
    /\ events' = ClosedEvents(events, mainWindow, p, procs[p].code)
    /\ UNCHANGED <<app, mainWindow, timers, starts, nRestarts>>
    /\ UNCHANGED <<locVars, instVars, pageVars>>

\* ----------------------------------------------------------- the menu
\* "Stop Monitor": stopPythonBackend()
MenuStop ==
    /\ app = "ready"
    /\ procs' = StopProcs(procs, pythonProcess)
    /\ events' = StopEvents(events, pythonProcess, mainWindow)
    /\ pythonProcess' = 0
    /\ timers' = MarkStoppedTimers(timers)
    /\ starts' = MarkStoppedStarts(starts)
    /\ UNCHANGED <<app, mainWindow, nRestarts>>
    /\ UNCHANGED <<locVars, instVars, pageVars>>

\* MenuRestart sending "python-restarted" at once, outside the timer callback.
MenuRestartEarlyEvent ==
    /\ app = "ready"
    /\ nRestarts < MaxRestarts
    /\ nRestarts' = nRestarts + 1
    /\ procs' = StopProcs(procs, pythonProcess)
    /\ events' = Send(StopEvents(events, pythonProcess, mainWindow), mainWindow,
                      Event("restarted", 0, nRestarts + 1, 0, FALSE, ""))
    /\ pythonProcess' = 0
    /\ timers' = Append(timers,
                   [sid |-> nRestarts + 1, kind |-> "restart",
                    old |-> pythonProcess, stale |-> FALSE,
                    afterStop |-> FALSE])
    /\ UNCHANGED <<app, mainWindow, starts>>
    /\ UNCHANGED <<locVars, instVars, pageVars>>

\* "Restart Monitor": restartPythonBackend() = stopPythonBackend(), then
\* setTimeout(() => { startPythonBackend(); send("python-restarted") }, 1000)
MenuRestart ==
    /\ app = "ready"
    /\ nRestarts < MaxRestarts
    /\ nRestarts' = nRestarts + 1
    /\ procs' = StopProcs(procs, pythonProcess)
    /\ events' = StopEvents(events, pythonProcess, mainWindow)
    /\ pythonProcess' = 0
    /\ timers' = Append(timers,
                   [sid |-> nRestarts + 1, kind |-> "restart",
                    old |-> pythonProcess, stale |-> FALSE,
                    afterStop |-> FALSE])
    /\ UNCHANGED <<app, mainWindow, starts>>
    /\ UNCHANGED <<locVars, instVars, pageVars>>

\* "Exit": app.quit() -> "before-quit": stopPythonBackend().  Electron then
\* closes the windows and ends the host; the event loop runs until it does.
MenuExit ==
    /\ app = "ready"
    /\ app' = "quitting"
    /\ procs' = StopProcs(procs, pythonProcess)
    /\ events' = StopEvents(events, pythonProcess, mainWindow)
    /\ pythonProcess' = 0
    /\ timers' = MarkTimers(timers)
    /\ starts' = MarkStarts(starts)
    /\ UNCHANGED <<mainWindow, nRestarts>>
    /\ UNCHANGED <<locVars, instVars, pageVars>>

\* The user closes the window: mainWindow.on("closed") sets mainWindow = null,
\* then "window-all-closed": stopPythonBackend(); if (platform !== "darwin")
\* app.quit(), whose "before-quit" runs stopPythonBackend() once more (the
\* handle is already null).  darwin: process.platform === "darwin".
WindowClose(darwin) ==
    /\ app = "ready"
    /\ mainWindow
    /\ mainWindow' = FALSE
    /\ procs' = StopProcs(procs, pythonProcess)
    /\ events' = StopEvents(events, pythonProcess, FALSE)
    /\ pythonProcess' = 0
    /\ app' = IF darwin THEN "ready" ELSE "quitting"
    /\ timers' = MarkTimers(timers)
    /\ starts' = MarkStarts(starts)
    /\ UNCHANGED <<nRestarts>>
    /\ UNCHANGED <<locVars, instVars, pageVars>>

\* While quitting Electron closes the window: mainWindow = null.
QuitCloseWindow ==
    /\ app = "quitting"
    /\ mainWindow
    /\ mainWindow' = FALSE
    /\ UNCHANGED <<app, pythonProcess, procs, timers, starts, events,
                   nRestarts>>
    /\ UNCHANGED <<locVars, instVars, pageVars>>

\* The host process ends: its pending timers and promises are gone and no
\* callback of it runs any more.  The subprocesses are left as they are.
HostExit ==
    /\ app = "quitting"
    /\ ~mainWindow
    /\ app' = "exited"
    /\ timers' = <<>>
    /\ starts' = {}
    /\ UNCHANGED <<mainWindow, pythonProcess, procs, events, nRestarts>>
    /\ UNCHANGED <<locVars, instVars, pageVars>>

Next ==
    \/ AppReady
    \/ TimerFire
    \/ \E s \in starts : StartNoPython(s)
    \/ \E s \in starts : StartNoScript(s)
    \/ \E s \in starts : StartSpawn(s)
    \/ \E s \in starts : StartThrow(s)
    \/ \E p \in Pids : BackendMessage(p)
    \/ \E p \in Pids : BackendStderr(p)
    \/ \E p \in Pids, code \in ExitCodes : BackendExit(p, code)
    \/ \E p \in Pids : BackendClose(p)
    \/ MenuStop
    \/ MenuRestart
    \/ MenuExit
    \/ \E darwin \in BOOLEAN : WindowClose(darwin)
    \/ QuitCloseWindow
    \/ HostExit

Spec == Init /\ [][Next]_vars

\* The supervisor without the two stream observers, which change nothing but
\* the event log and their own counters.
NextLife ==
    \/ AppReady
    \/ TimerFire
    \/ \E s \in starts : StartNoPython(s)
    \/ \E s \in starts : StartNoScript(s)
    \/ \E s \in starts : StartSpawn(s)
    \/ \E s \in starts : StartThrow(s)
    \/ \E p \in Pids, code \in ExitCodes : BackendExit(p, code)
    \/ \E p \in Pids : BackendClose(p)
    \/ MenuStop
    \/ MenuRestart
    \/ MenuExit
    \/ \E darwin \in BOOLEAN : WindowClose(darwin)
    \/ QuitCloseWindow
    \/ HostExit

SpecLife == Init /\ [][NextLife]_vars


\* ------------------------------------------------ findPythonExecutable()
\* What a command does when run with "--version": the spawn errors (and then
\* there is no output), or it writes out stdout chunks and err stderr chunks.
Profiles ==
    {[error |-> TRUE, out |-> 0, err |-> 0]} \cup
    {[error |-> FALSE, out |-> o, err |-> e] : o \in 0..1, e \in 0..MaxErrChunks}

InitLocate ==
    /\ InitSup
    /\ InitRest
    /\ loc = "idle"
    /\ profile \in [CommandNames -> Profiles]
    /\ probes = <<>>
    /\ resolved = "pending"

\* resolve(v): a promise settles once; later calls change nothing.
Resolve(cur, v) == IF cur = "pending" THEN v ELSE cur

\* const pythonProcess = spawn(command, ["--version"]) and its three listeners:
\* the events this probe still has to deliver.
NewProbe(index) ==
    [index |-> index,
     error |-> profile[commands[index]].error,
     out |-> profile[commands[index]].out,
     err |-> profile[commands[index]].err,
     exited |-> FALSE]

\* tryNext(index), with index counted from 1:
\*   if (index >= commands.length) { resolve(null); return; } ... spawn ...
TryNextResolved(index) ==
    IF index > Len(commands) THEN Resolve(resolved, None) ELSE resolved

TryNextProbes(ps, index) ==
    IF index > Len(commands) THEN ps ELSE Append(ps, NewProbe(index))

\* findPythonExecutable() is called: tryNext(0)
FindPythonExecutable ==
    /\ loc = "idle"
    /\ loc' = "called"
    /\ probes' = TryNextProbes(probes, 1)
    /\ resolved' = TryNextResolved(1)
    /\ UNCHANGED profile
    /\ UNCHANGED <<supVars, instVars, pageVars>>

\* pythonProcess.on("error", () => { tryNext(index + 1); })
ProbeError(i) ==
    /\ i \in 1..Len(probes)
    /\ probes[i].error
    /\ probes' = TryNextProbes([probes EXCEPT ![i].error = FALSE],
                               probes[i].index + 1)
    /\ resolved' = TryNextResolved(probes[i].index + 1)
    /\ UNCHANGED <<loc, profile>>
    /\ UNCHANGED <<supVars, instVars, pageVars>>

\* pythonProcess.stdout.on("data", () => { resolve(command); })
ProbeStdout(i) ==
    /\ i \in 1..Len(probes)
    /\ probes[i].out > 0
    /\ probes' = [probes EXCEPT ![i].out = @ - 1]
    /\ resolved' = Resolve(resolved, commands[probes[i].index])
    /\ UNCHANGED <<loc, profile>>
    /\ UNCHANGED <<supVars, instVars, pageVars>>

\* pythonProcess.stderr.on("data", () => { tryNext(index + 1); })
ProbeStderr(i) ==
    /\ i \in 1..Len(probes)
    /\ probes[i].err > 0
    /\ probes' = TryNextProbes([probes EXCEPT ![i].err = @ - 1],
                               probes[i].index + 1)
    /\ resolved' = TryNextResolved(probes[i].index + 1)
    /\ UNCHANGED <<loc, profile>>
    /\ UNCHANGED <<supVars, instVars, pageVars>>

\* The probe subprocess ends once it has delivered its events; the code
\* registers no listener for that.
ProbeExit(i) ==
    /\ i \in 1..Len(probes)
    /\ ~probes[i].exited
    /\ ~probes[i].error /\ probes[i].out = 0 /\ probes[i].err = 0
    /\ probes' = [probes EXCEPT ![i].exited = TRUE]
    /\ UNCHANGED <<loc, profile, resolved>>
    /\ UNCHANGED <<supVars, instVars, pageVars>>

NextLocate ==
    \/ FindPythonExecutable
    \/ \E i \in 1..Len(probes) : ProbeError(i)
    \/ \E i \in 1..Len(probes) : ProbeStdout(i)
    \/ \E i \in 1..Len(probes) : ProbeStderr(i)
    \/ \E i \in 1..Len(probes) : ProbeExit(i)

SpecLocate == InitLocate /\ [][NextLocate]_vars

\* Node delivers every pending event and every probe subprocess ends.
FairSpecLocate == SpecLocate /\ WF_vars(NextLocate)

\* ------------------------------------- installPythonDependencies()
\* One call: its locator is unresolved ("locating"), it returned without a
\* subprocess ("aborted"), or its pip subprocess is "running", has "exited"
\* (streams not yet drained) or is "closed".  output / errorOutput are the
\* two accumulators; wroteOut / wroteErr record what pip wrote, pipeOut /
\* pipeErr what has not reached a data listener yet.  Chunk k of a stream
\* is the text k.
NewInstall ==
    [state |-> "locating", cmd |-> None, code |-> 0,
     wroteOut |-> <<>>, wroteErr |-> <<>>, pipeOut |-> <<>>, pipeErr |-> <<>>,
     output |-> <<>>, errorOutput |-> <<>>]

Dialog(run, kind, title, output, errors) ==
    [run |-> run, kind |-> kind, title |-> title, output |-> output,
     errors |-> errors]

\* installPythonDependencies(): findPythonExecutable().then(...)
InstallCall ==
    /\ Len(installs) < MaxInstalls
    /\ installs' = Append(installs, NewInstall)
    /\ UNCHANGED dialogs

\* Help > "Install Python Dependencies"
MenuInstall ==
    /\ app = "ready"
    /\ InstallCall
    /\ UNCHANGED <<supVars, locVars, pageVars>>

\* if (!pythonCommand) { dialog.showErrorBox("Python Not Found", ...); return; }
InstallNoPython(i) ==
    /\ HostRuns
    /\ i \in 1..Len(installs)
    /\ installs[i].state = "locating"
    /\ installs' = [installs EXCEPT ![i].state = "aborted"]
    /\ dialogs' = dialogs (+)
         SetToBag({Dialog(i, "error", "Python Not Found", <<>>, <<>>)})
    /\ UNCHANGED <<supVars, locVars, pageVars>>

\* spawn(pythonCommand, ["-m", "pip", "install", "-r", requirementsPath], ...)
\* and the three listeners
InstallSpawn(i, command) ==
    /\ HostRuns
    /\ i \in 1..Len(installs)
    /\ installs[i].state = "locating"
    /\ installs' = [installs EXCEPT ![i].state = "running", ![i].cmd = command]
    /\ UNCHANGED dialogs
    /\ UNCHANGED <<supVars, locVars, pageVars>>

\* The pip subprocess writes its next chunk to stdout / to stderr.
InstallWriteOut(i) ==
    /\ i \in 1..Len(installs)
    /\ installs[i].state = "running"
    /\ Len(installs[i].wroteOut) < MaxInstallChunks
    /\ LET k == Len(installs[i].wroteOut) + 1 IN
         installs' = [installs EXCEPT ![i].wroteOut = Append(@, k),
                                      ![i].pipeOut = Append(@, k)]
    /\ UNCHANGED dialogs
    /\ UNCHANGED <<supVars, locVars, pageVars>>

InstallWriteErr(i) ==
    /\ i \in 1..Len(installs)
    /\ installs[i].state = "running"
    /\ Len(installs[i].wroteErr) < MaxInstallChunks
    /\ LET k == Len(installs[i].wroteErr) + 1 IN
         installs' = [installs EXCEPT ![i].wroteErr = Append(@, k),
                                      ![i].pipeErr = Append(@, k)]
    /\ UNCHANGED dialogs
    /\ UNCHANGED <<supVars, locVars, pageVars>>

\* installProcess.stdout.on("data", (data) => { output += data.toString(); })
InstallStdout(i) ==
    /\ HostRuns
    /\ i \in 1..Len(installs)
    /\ installs[i].pipeOut # <<>>
    /\ installs' = [installs EXCEPT
                      ![i].output = Append(@, Head(installs[i].pipeOut)),
                      ![i].pipeOut = Tail(@)]
    /\ UNCHANGED dialogs
    /\ UNCHANGED <<supVars, locVars, pageVars>>

\* installProcess.stderr.on("data", (data) => { errorOutput += data.toString(); })
InstallStderr(i) ==
    /\ HostRuns
    /\ i \in 1..Len(installs)
    /\ installs[i].pipeErr # <<>>
    /\ installs' = [installs EXCEPT
                      ![i].errorOutput = Append(@, Head(installs[i].pipeErr)),
                      ![i].pipeErr = Tail(@)]
    /\ UNCHANGED dialogs
    /\ UNCHANGED <<supVars, locVars, pageVars>>

\* The pip subprocess ends.
InstallExit(i, code) ==
    /\ i \in 1..Len(installs)
    /\ installs[i].state = "running"
    /\ installs' = [installs EXCEPT ![i].state = "exited", ![i].code = code]
    /\ UNCHANGED dialogs
    /\ UNCHANGED <<supVars, locVars, pageVars>>

\* The dialog the close listener shows.
InstallDialog(i, r) ==
    IF r.code = 0
    THEN Dialog(i, "info", "Dependencies Installed", <<>>, <<>>)
    ELSE Dialog(i, "error", "Installation Failed", r.output, r.errorOutput)

\* InstallClose as an "exit" listener: it does not wait for the streams.
InstallCloseOnExit(i) ==
    /\ HostRuns
    /\ i \in 1..Len(installs)
    /\ installs[i].state = "exited"
    /\ installs' = [installs EXCEPT ![i].state = "closed"]
    /\ dialogs' = dialogs (+) SetToBag({InstallDialog(i, installs[i])})
    /\ UNCHANGED <<supVars, locVars, pageVars>>

\* installProcess.on("close", (code) => { if (code === 0) showMessageBox(...)
\* else showErrorBox("Installation Failed", ... output ... errorOutput) }):
\* "close" comes after the subprocess has ended and its streams are drained.
InstallClose(i) ==
    /\ HostRuns
    /\ i \in 1..Len(installs)
    /\ installs[i].state = "exited"
    /\ installs[i].pipeOut = <<>> /\ installs[i].pipeErr = <<>>
    /\ installs' = [installs EXCEPT ![i].state = "closed"]
    /\ dialogs' = dialogs (+) SetToBag({InstallDialog(i, installs[i])})
    /\ UNCHANGED <<supVars, locVars, pageVars>>

NextInstall ==
    \/ AppReady
    \/ MenuInstall
    \/ \E i \in 1..Len(installs) : InstallNoPython(i)
    \/ \E i \in 1..Len(installs) : \E c \in CommandNames : InstallSpawn(i, c)
    \/ \E i \in 1..Len(installs) : InstallWriteOut(i)
    \/ \E i \in 1..Len(installs) : InstallWriteErr(i)
    \/ \E i \in 1..Len(installs) : InstallStdout(i)
    \/ \E i \in 1..Len(installs) : InstallStderr(i)
    \/ \E i \in 1..Len(installs) : \E c \in InstallCodes : InstallExit(i, c)
    \/ \E i \in 1..Len(installs) : InstallClose(i)

SpecInstall == Init /\ [][NextInstall]_vars

\* ------------------------------------------- the page and the bridge
\* The channel of a webContents.send.
ChannelOf(e) ==
    CASE e.type = "output" -> "python-output"
      [] e.type = "error" -> "python-error"
      [] e.type = "closed" -> "python-closed"
      [] e.type = "stopped" -> "python-stopped"
      [] e.type = "restarted" -> "python-restarted"

\* Message boxes shown at the page's request.
PageBox == Dialog(0, "message", "page", <<>>, <<>>)

\* ipcMain.handle(channel, ...): what the host does for an invoke.
\*   "get-app-version":      return app.getVersion()
\*   "show-message-box":     dialog.showMessageBox(mainWindow, options)
\*   "install-dependencies": installPythonDependencies()
IpcMainHandle(c) ==
    /\ c \in IpcHandlers
    /\ c = "get-app-version" => UNCHANGED instVars
    /\ c = "show-message-box" =>
         /\ CopiesIn(PageBox, dialogs) < MaxBoxes
         /\ dialogs' = dialogs (+) SetToBag({PageBox})
         /\ UNCHANGED installs
    /\ c = "install-dependencies" => InstallCall

\* onPythonOutput(callback) etc.: (callback) => ipcRenderer.on(channel,
\* callback).  The arrow function returns what ipcRenderer.on returns, the
\* ipcRenderer itself; whether the bridge hands its methods to the page
\* depends on the Electron release (leaks).
PageSubscribe(c) ==
    /\ mainWindow
    /\ c \in ExposedSubscribe
    /\ listeners[c] < MaxListeners
    /\ listeners' = [listeners EXCEPT ![c] = @ + 1]
    /\ \E leaks \in BOOLEAN : sender' = (sender \/ leaks)
    /\ UNCHANGED delivered
    /\ UNCHANGED <<supVars, locVars, instVars>>

\* A sent event arrives in the page: the listeners of its channel are the
\* page's callbacks themselves, called with (event, ...args), event.sender
\* being the ipcRenderer.
PageReceive ==
    /\ mainWindow
    /\ \E e \in BagToSet(events) :
         /\ CopiesIn(e, delivered) < CopiesIn(e, events)
         /\ delivered' = delivered (+) SetToBag({e})
         /\ IF listeners[ChannelOf(e)] > 0
            THEN \E leaks \in BOOLEAN : sender' = (sender \/ leaks)
            ELSE sender' = sender
    /\ UNCHANGED listeners
    /\ UNCHANGED <<supVars, locVars, instVars>>

\* removeAllListeners: (channel) => ipcRenderer.removeAllListeners(channel)
PageRemoveAll(c) ==
    /\ mainWindow
    /\ c \in Channels
    /\ listeners' = [listeners EXCEPT ![c] = 0]
    /\ UNCHANGED <<sender, delivered>>
    /\ UNCHANGED <<supVars, locVars, instVars>>

\* getAppVersion: () => ipcRenderer.invoke("get-app-version")
\* showMessageBox: (options) => ipcRenderer.invoke("show-message-box", options)
PageInvoke(c) ==
    /\ mainWindow
    /\ c \in ExposedInvoke
    /\ IpcMainHandle(c)
    /\ UNCHANGED <<supVars, locVars, pageVars>>

\* The page calls invoke on an ipcRenderer it holds.
PageSenderInvoke(c) ==
    /\ mainWindow
    /\ sender
    /\ IpcMainHandle(c)
    /\ UNCHANGED <<supVars, locVars, pageVars>>

NextBridge ==
    \/ AppReady
    \/ TimerFire
    \/ \E s \in starts : StartSpawn(s)
    \/ \E p \in Pids : BackendMessage(p)
    \/ \E c \in ExposedSubscribe : PageSubscribe(c)
    \/ PageReceive
    \/ \E c \in Channels : PageRemoveAll(c)
    \/ \E c \in ExposedInvoke : PageInvoke(c)
    \/ \E c \in IpcHandlers : PageSenderInvoke(c)

SpecBridge == Init /\ [][NextBridge]_vars


\* ========================================================== properties
\* A step that spawns a backend subprocess, and the subprocess it spawns.
SpawnStep == Len(procs') = Len(procs) + 1
Spawned == procs'[Len(procs')]
\* A step in which the close observer of subprocess p runs.
CloseStep(p) == procs[p].status = "exited" /\ procs'[p].status = "closed"
\* A step in which restartPythonBackend() runs.
RestartStep == nRestarts' = nRestarts + 1
\* A step in which "window-all-closed" or "before-quit" runs stop().
ShutdownStep ==
    app = "ready" /\ (app' = "quitting" \/ (mainWindow /\ ~mainWindow'))
ClosedEventsOf(p) == {e \in BagToSet(events) : e.type = "closed" /\ e.pid = p}

\* C1: in every reachable state at most one backend subprocess is live
\* (spawned and not yet terminated).
C1_AtMostOneLive == Cardinality(LivePids) <= 1

\* C2: a start invoked while the supervisor is not Idle (a handle is live or
\* another start is in flight) spawns nothing and never replaces a handle;
\* after a start that does spawn, the handle refers to the only live
\* subprocess.
C2_StartOnlyFromIdle ==
    [][SpawnStep =>
         /\ Spawned.fromIdle
         /\ pythonProcess = 0
         /\ pythonProcess' = Len(procs')
         /\ LivePids' = {Len(procs')}]_vars

\* C3: the close observer of a subprocess that stop() has already detached
\* from the handle leaves the handle as it is; in particular it does not
\* clear the handle of a subprocess started afterwards.
C3_LateCloseHarmless ==
    [][\A p \in Pids :
         (CloseStep(p) /\ procs[p].signalled /\ pythonProcess # p)
            => pythonProcess' = pythonProcess]_vars

\* C4: within one restart(), stop() completes first (signal sent, handle
\* cleared, stopped event emitted), start() begins only later, from the timer,
\* and the subprocess that restart() stopped is no longer live when the
\* restart's start spawns the new one.
C4_RestartOrdering ==
    [][/\ RestartStep =>
            /\ pythonProcess' = 0
            /\ starts' = starts
            /\ Len(timers') = Len(timers) + 1
            /\ pythonProcess # 0 =>
                 /\ procs'[pythonProcess].signalled
                 /\ mainWindow =>
                      CopiesIn(Event("stopped", pythonProcess, 0, 0, FALSE, ""),
                               events') =
                      CopiesIn(Event("stopped", pythonProcess, 0, 0, FALSE, ""),
                               events) + 1
       /\ (SpawnStep /\ Spawned.old # 0) =>
            procs[Spawned.old].status # "running"]_vars

\* C5: once a shutdown handler (window-all-closed, before-quit) has run
\* stop(), no backend subprocess is live without having been sent a
\* termination signal, and no timer or start that was pending at that moment
\* spawns a backend subprocess afterwards.
C5_NoOrphanOnShutdown ==
    [][/\ ShutdownStep =>
            \A p \in Pids : procs'[p].status = "running" => procs'[p].signalled
       /\ SpawnStep => ~Spawned.stale]_vars

\* C6: every termination of a backend subprocess (observed while the window
\* exists) produces exactly one closed event, carrying its exit code and
\* unexpected = (code # 0); a termination with code 0 is reported too.
C6_EveryExitOneClosedEvent ==
    \A p \in Pids :
        (procs[p].status = "closed" /\ mainWindow) =>
            /\ ClosedEventsOf(p) =
                 {Event("closed", p, 0, procs[p].code, procs[p].code # 0, "")}
            /\ \A e \in ClosedEventsOf(p) : CopiesIn(e, events) = 1

\* C7: every closed event delivered to the presentation layer carries the
\* exit code of the subprocess it is about, and its unexpected flag is true
\* if and only if that code is not 0.
C7_UnexpectedIffNonzero ==
    \A e \in BagToSet(events) :
        e.type = "closed" =>
            /\ e.pid \in Pids
            /\ procs[e.pid].status = "closed"
            /\ e.code = procs[e.pid].code
            /\ e.unexpected <=> (e.code # 0)

\* A closed event for exit code 137 has been delivered.
C7_Witness ==
    \E e \in BagToSet(events) :
        e.type = "closed" /\ e.code = 137 /\ e.unexpected

\* The candidate locate() has to return: the first command, in list order,
\* whose probe writes to stdout and not to stderr; None if there is none.
Clean(c) == ~profile[c].error /\ profile[c].out > 0 /\ profile[c].err = 0
CleanIdx == {i \in 1..Len(commands) : Clean(commands[i])}
\* The probe i has delivered no stderr chunk so far.
NoStderrYet(i) == probes[i].err = profile[commands[probes[i].index]].err

\* C8: whatever the order of the probes' events, locate() returns the first
\* candidate in list order whose probe yields stdout and no stderr output:
\* the probe whose stdout settles the promise has produced no stderr output,
\* no earlier candidate would have answered cleanly, and None is returned
\* only when no candidate answers cleanly.
C8_FirstCleanCandidate ==
    [][(resolved = "pending" /\ resolved' # "pending") =>
         IF resolved' = None
         THEN CleanIdx = {}
         ELSE \E i \in 1..Len(probes) :
                /\ probes'[i].out < probes[i].out
                /\ resolved' = commands[probes[i].index]
                /\ NoStderrYet(i)
                /\ \A j \in 1..(probes[i].index - 1) : ~Clean(commands[j])]_vars

\* C9: when every probe subprocess terminates, locate() eventually resolves,
\* to a candidate or to None.
C9_LocateResolves == <>(resolved # "pending")

StopStep ==
    MenuStop \/ MenuRestart \/ MenuExit \/ \E darwin \in BOOLEAN : WindowClose(darwin)
StoppedEvent(h) == Event("stopped", h, 0, 0, FALSE, "")

\* A pending timer or start without its bookkeeping marks.
Unmarked(r) == [r EXCEPT !.stale = FALSE, !.afterStop = FALSE]

\* C11: stop() invoked while the handle is empty emits no event, sends no
\* signal and leaves the supervisor state unchanged (Stop Monitor then changes
\* nothing at all: the pending timers and starts stay as they are).
C11_StopIdleNoEffect ==
    [][(StopStep /\ pythonProcess = 0) =>
         /\ events' = events
         /\ procs' = procs
         /\ pythonProcess' = 0
         /\ {Unmarked(s) : s \in starts'} = {Unmarked(s) : s \in starts}
         /\ MenuStop =>
              /\ UNCHANGED <<app, mainWindow, nRestarts, locVars, instVars,
                            pageVars>>
              /\ Len(timers') = Len(timers)
              /\ \A i \in 1..Len(timers) :
                    Unmarked(timers'[i]) = Unmarked(timers[i])]_vars

\* restart() has run its stop() on an idle supervisor: nothing was signalled
\* and no event was sent.
C11_Witness ==
    /\ nRestarts = 1
    /\ pythonProcess = 0
    /\ procs = <<>>
    /\ events = EmptyBag
    /\ \E i \in 1..Len(timers) : timers[i].kind = "restart" /\ timers[i].old = 0

\* C12 as stated: stop() invoked while the handle is set signals that
\* subprocess, clears the handle and emits exactly one stopped event, in the
\* same step and without waiting for the subprocess to exit.
C12_StopLiveOneStoppedAlways ==
    [][(StopStep /\ pythonProcess # 0) =>
         /\ procs' = [procs EXCEPT ![pythonProcess].signalled = TRUE]
         /\ pythonProcess' = 0
         /\ events' = events (+) SetToBag({StoppedEvent(pythonProcess)})]_vars

\* C12 amended: as above, with exactly one stopped event if the main window
\* exists when stop() runs and none if it has been closed.
C12_StopLiveOneStoppedIfWindow ==
    [][(StopStep /\ pythonProcess # 0) =>
         /\ procs' = [procs EXCEPT ![pythonProcess].signalled = TRUE]
         /\ pythonProcess' = 0
         /\ events' = IF mainWindow'
                      THEN events (+) SetToBag({StoppedEvent(pythonProcess)})
                      ELSE events]_vars

\* stop() has acted on a live subprocess: it is signalled, still running,
\* the handle is empty and its stopped event was sent.
C12_Witness ==
    \E p \in Pids :
        /\ procs[p].signalled
        /\ procs[p].status = "running"
        /\ pythonProcess = 0
        /\ CopiesIn(StoppedEvent(p), events) = 1

\* C13: the close observer clears the handle and starts nothing; a timer is
\* set only by app startup or by restart(), a start is invoked only by a
\* timer, and every subprocess is spawned by its own start: there are never
\* more subprocesses than one for the startup plus one per restart().
C13_NoAutomaticRestart ==
    [][/\ \A p \in Pids : CloseStep(p) =>
            /\ pythonProcess' = 0
            /\ starts' = starts
            /\ timers' = timers
            /\ Len(procs') = Len(procs)
       /\ Len(timers') > Len(timers) => (app = "init" \/ RestartStep)
       /\ ~({Unmarked(s) : s \in starts'} \subseteq
              {Unmarked(s) : s \in starts}) =>
            (timers # <<>> /\ timers' = Tail(timers))
       /\ SpawnStep =>
            /\ Spawned.sid \in 0..nRestarts
            /\ \A p \in Pids : procs[p].sid # Spawned.sid
            /\ \E s \in starts : s.sid = Spawned.sid /\ s \notin starts']_vars

\* The only subprocess exited with a nonzero code, its close observer ran,
\* and nothing is pending: the supervisor is idle and stays so.
C13_Witness ==
    /\ Len(procs) = 1
    /\ procs[1].status = "closed"
    /\ procs[1].code # 0
    /\ pythonProcess = 0
    /\ timers = <<>>
    /\ starts = {}
    /\ app = "ready"

OutputEvent(p, k) == Event("output", p, k, 0, FALSE, "")
StderrEvent(p, k) == Event("error", p, k, 0, FALSE, "stderr")

\* No stream event is in the log twice, and none is there for a message or
\* chunk the subprocess has not emitted.
NoStreamDuplicate ==
    \A e \in BagToSet(events) :
        (e.type = "output" \/ (e.type = "error" /\ e.text = "stderr")) =>
            /\ CopiesIn(e, events) = 1
            /\ e.pid \in Pids
            /\ e.seq \in 1..(IF e.type = "output" THEN procs[e.pid].out
                                                   ELSE procs[e.pid].err)

\* Every message and chunk handled so far has its event in the log.
NoStreamLoss ==
    \A p \in Pids :
        /\ \A k \in 1..procs[p].out : CopiesIn(OutputEvent(p, k), events) = 1
        /\ \A k \in 1..procs[p].err : CopiesIn(StderrEvent(p, k), events) = 1

\* The k-th output event of a subprocess is sent in a later step than its
\* earlier ones.
OutputInOrder ==
    \A p \in Pids :
        (procs'[p].out = procs[p].out + 1 /\ events' # events) =>
            /\ events' = events (+) SetToBag({OutputEvent(p, procs[p].out + 1)})
            /\ \A j \in 1..procs[p].out : CopiesIn(OutputEvent(p, j), events) = 1

\* A message or chunk of the subprocess the handle refers to is handled.
HandledForHandle(p) ==
    (BackendMessage(p) \/ BackendStderr(p)) /\ pythonProcess = p

\* C14 as stated: for the lifetime of a backend handle every stdout message
\* and stderr chunk of its subprocess is delivered as exactly one output /
\* error event, no duplicate and no loss, and output events are delivered in
\* emission order.
C14_StreamsExactlyOnceAlways ==
    /\ []NoStreamDuplicate
    /\ [][OutputInOrder /\
          (\A p \in Pids : HandledForHandle(p) => events' # events)]_vars

\* C14 amended: no duplicate ever, output events in emission order, and no
\* loss as long as the main window exists; what is handled after the window
\* was closed is not delivered.
C14_StreamsExactlyOnceIfWindow ==
    /\ [](NoStreamDuplicate /\ (mainWindow => NoStreamLoss))
    /\ [][OutputInOrder /\
          (\A p \in Pids : (BackendMessage(p) \/ BackendStderr(p)) =>
               (events' # events <=> mainWindow))]_vars

\* A subprocess has emitted two stdout messages and a stderr chunk and each
\* has its one event.
C14_Witness ==
    \E p \in Pids :
        /\ procs[p].out = 2
        /\ procs[p].err = 1
        /\ CopiesIn(OutputEvent(p, 1), events) = 1
        /\ CopiesIn(OutputEvent(p, 2), events) = 1
        /\ CopiesIn(StderrEvent(p, 1), events) = 1

\* C18: handling a stderr chunk of the running backend only emits an error
\* event: the handle, the subprocess's status and signal state, the timers
\* and the starts are left unchanged.
C18_StderrNonFatal ==
    [][\A p \in Pids : BackendStderr(p) =>
         /\ pythonProcess' = pythonProcess
         /\ procs' = [procs EXCEPT ![p].err = @ + 1]
         /\ events' = Send(events, mainWindow, StderrEvent(p, procs[p].err + 1))
         /\ UNCHANGED <<app, mainWindow, timers, starts, nRestarts>>]_vars

\* A backend has written to stderr, its error event was sent, and it is
\* still running and still the handle.
C18_Witness ==
    \E p \in Pids :
        /\ procs[p].err = 1
        /\ CopiesIn(StderrEvent(p, 1), events) = 1
        /\ procs[p].status = "running"
        /\ ~procs[p].signalled
        /\ pythonProcess = p

RestartedEvent(sid) == Event("restarted", 0, sid, 0, FALSE, "")
\* The timer callback of a restart() runs.
RestartTimerStep == TimerFire /\ Head(timers).kind = "restart"
\* restart() sends no restarted event itself, and no restarted event is in
\* the log twice or while its restart's timer is still pending.
RestartedNotEarly ==
    \A sid \in 1..MaxRestarts :
        /\ CopiesIn(RestartedEvent(sid), events) <= 1
        /\ CopiesIn(RestartedEvent(sid), events) = 1 =>
             /\ sid <= nRestarts
             /\ \A i \in 1..Len(timers) : timers[i].sid # sid

\* C15 as stated: each restart() emits exactly one restarted event, after
\* the stop step's stopped event and after start() has been invoked by the
\* timer callback.
C15_OneRestartedAlways ==
    /\ []RestartedNotEarly
    /\ [][RestartTimerStep =>
            /\ \E s \in starts' \ starts : s.sid = Head(timers).sid
            /\ events' = events (+)
                 SetToBag({RestartedEvent(Head(timers).sid)})]_vars

\* C15 amended: the restarted event is sent by the timer callback, after
\* start() has been invoked and so after the stop step's stopped event;
\* exactly one if the main window exists when the timer fires, none if it
\* has been closed; any other step leaves the restarted events as they are.
C15_OneRestartedIfWindow ==
    /\ []RestartedNotEarly
    /\ [][/\ RestartTimerStep =>
               /\ \E s \in starts' \ starts : s.sid = Head(timers).sid
               /\ events' = IF mainWindow
                            THEN events (+)
                                   SetToBag({RestartedEvent(Head(timers).sid)})
                            ELSE events
          /\ ~RestartTimerStep =>
               \A sid \in 1..MaxRestarts :
                   CopiesIn(RestartedEvent(sid), events') =
                   CopiesIn(RestartedEvent(sid), events)]_vars

\* A restart() stopped backend 1, its timer fired, start() is in flight, and
\* the log holds the stopped event and one restarted event.
C15_Witness ==
    /\ CopiesIn(RestartedEvent(1), events) = 1
    /\ CopiesIn(StoppedEvent(1), events) = 1
    /\ \E s \in starts : s.sid = 1 /\ s.old = 1

\* C20: within one locate() call each candidate index is probed at most
\* once, so at most Len(commands) probe subprocesses are spawned, and no
\* probe is spawned once the call has resolved.
C20_EachCandidateProbedOnce ==
    /\ [](\A i, j \in 1..Len(probes) :
            i # j => probes[i].index # probes[j].index)
    /\ [](Len(probes) <= Len(commands))
    /\ [][resolved # "pending" => Len(probes') = Len(probes)]_vars

\* C19: after Stop Monitor's stop() no backend subprocess is live without
\* having been signalled, and no start that was in flight when stop() ran
\* (timer pending or locator unresolved) spawns a backend subprocess.
C19_StopWinsOverPendingStart ==
    [][/\ MenuStop =>
            \A p \in Pids : procs'[p].status = "running" => procs'[p].signalled
       /\ SpawnStep => \A s \in starts \ starts' : ~s.afterStop]_vars

\* The dialogs of install run i, and how many there are.
DialogsOf(i) == {d \in BagToSet(dialogs) : d.run = i}
OneDialog(i, d) == DialogsOf(i) = {d} /\ CopiesIn(d, dialogs) = 1

\* C16: an install run shows no notification before it ends and exactly
\* one when it does: "Python Not Found" (and no subprocess) when the locator
\* returned none; the success notification when pip exited with code 0; the
\* failure notification carrying everything pip wrote to stdout and to
\* stderr, in order, when it exited otherwise.
C16_InstallOneNotification ==
    \A i \in 1..Len(installs) :
        LET r == installs[i] IN
        /\ r.state \in {"locating", "running", "exited"} => DialogsOf(i) = {}
        /\ r.state = "aborted" =>
             /\ OneDialog(i, Dialog(i, "error", "Python Not Found", <<>>, <<>>))
             /\ r.cmd = None /\ r.wroteOut = <<>> /\ r.wroteErr = <<>>
        /\ (r.state = "closed" /\ r.code = 0) =>
             OneDialog(i, Dialog(i, "info", "Dependencies Installed",
                                 <<>>, <<>>))
        /\ (r.state = "closed" /\ r.code # 0) =>
             OneDialog(i, Dialog(i, "error", "Installation Failed",
                                 r.wroteOut, r.wroteErr))

\* pip wrote to both streams, more than one chunk to stdout, and exited with
\* code 1; the failure dialog has been shown.
C16_Witness ==
    \E i \in 1..Len(installs) :
        /\ installs[i].state = "closed"
        /\ installs[i].code = 1
        /\ Len(installs[i].wroteOut) >= 2
        /\ Len(installs[i].wroteErr) >= 1
        /\ DialogsOf(i) # {}

\* A step taken by the page.
PageStep ==
    \/ \E c \in ExposedSubscribe : PageSubscribe(c)
    \/ PageReceive
    \/ \E c \in Channels : PageRemoveAll(c)
    \/ \E c \in ExposedInvoke : PageInvoke(c)
    \/ \E c \in IpcHandlers : PageSenderInvoke(c)

\* C17: the page can subscribe to the five lifecycle channels, invoke
\* get-app-version and show-message-box and remove listeners by channel
\* name, and nothing else; no step of the page starts, stops or restarts the
\* backend, runs the dependency installer or changes the supervisor's handle.
C17_BridgeAllowlist ==
    /\ [](ExposedSubscribe = SendChannels)
    /\ [](ExposedInvoke = {"get-app-version", "show-message-box"})
    /\ [][/\ \A c \in IpcHandlers :
               (PageInvoke(c) \/ PageSenderInvoke(c)) => c \in ExposedInvoke
          /\ PageStep => UNCHANGED <<pythonProcess, procs, timers, starts,
                                     nRestarts, installs>>]_vars

=============================================================================
